---- MODULE Spec2Model ----
(***************************************************************************)
(* State-machine model of src/generator.py (Safe Email Generator).         *)
(* Strings are sequences of one-character strings; a Text widget is a      *)
(* sequence of lines.  The handler generate_emails is split at its loop:   *)
(* GenerateEmails (validation and set-up), Attempt (one iteration of the   *)
(* while loop) and Finish (warning and publication).                       *)
(***************************************************************************)
EXTENDS Integers, Sequences, FiniteSets, TLC

\* ------------------------------------------------------------------ bounds
\* Largest email count typed into the count field that passes validation.
MaxCount == 2
\* Longest domain line enumerated by the domain-validation specification.
MaxDomLen == 4

\* ------------------------------------------------------ program constants
\* Upper limit of the email count (line 279).
COUNT_LIMIT == 200000

\* ------------------------------------------------------------- characters
LowerSeq ==
  <<"a","b","c","d","e","f","g","h","i","j","k","l","m",
    "n","o","p","q","r","s","t","u","v","w","x","y","z">>

UpperSeq ==
  <<"A","B","C","D","E","F","G","H","I","J","K","L","M",
    "N","O","P","Q","R","S","T","U","V","W","X","Y","Z">>

DigitSeq == <<"0","1","2","3","4","5","6","7","8","9">>

Range(s) == { s[i] : i \in 1..Len(s) }

LowerLetters == Range(LowerSeq)
UpperLetters == Range(UpperSeq)
Digits == Range(DigitSeq)
Whitespace == {" ", "\t"}
Separators == {".", "_", "-"}

\* str.lower() on one character
LowerChar(c) ==
  IF c \in UpperLetters
    THEN LowerSeq[CHOOSE i \in 1..26 : UpperSeq[i] = c]
    ELSE c

\* str.lower()
Lower(s) == [i \in 1..Len(s) |-> LowerChar(s[i])]

RECURSIVE LStrip(_, _)
LStrip(s, cs) ==
  IF s # <<>> /\ Head(s) \in cs THEN LStrip(Tail(s), cs) ELSE s

RECURSIVE RStrip(_, _)
RStrip(s, cs) ==
  IF s # <<>> /\ s[Len(s)] \in cs THEN RStrip(SubSeq(s, 1, Len(s) - 1), cs) ELSE s

\* str.strip(chars); str.strip() is Strip(s, Whitespace)
Strip(s, cs) == RStrip(LStrip(s, cs), cs)

\* length of the leading run of characters of cs
RECURSIVE RunLen(_, _)
RunLen(s, cs) ==
  IF s # <<>> /\ Head(s) \in cs THEN 1 + RunLen(Tail(s), cs) ELSE 0

\* re.sub(r"\s+", " ", line.strip())
RECURSIVE CollapseWs(_)
CollapseWs(s) ==
  IF s = <<>> THEN <<>>
  ELSE IF Head(s) \in Whitespace
    THEN <<" ">> \o CollapseWs(SubSeq(s, RunLen(s, Whitespace) + 1, Len(s)))
    ELSE <<Head(s)>> \o CollapseWs(Tail(s))

normalize_name_line(line) == CollapseWs(Strip(line, Whitespace))

\* App._read_lines: normalised lines of a Text widget, empty ones dropped
RECURSIVE read_lines(_)
read_lines(raw) ==
  IF raw = <<>> THEN <<>>
  ELSE IF normalize_name_line(Head(raw)) # <<>>
    THEN <<normalize_name_line(Head(raw))>> \o read_lines(Tail(raw))
    ELSE read_lines(Tail(raw))

\* re.split(r"\s+", s) with the empty pieces removed
RECURSIVE Tokens(_)
Tokens(s) ==
  IF s = <<>> THEN <<>>
  ELSE IF Head(s) \in Whitespace THEN Tokens(Tail(s))
  ELSE LET n == RunLen(s, {s[i] : i \in 1..Len(s)} \ Whitespace)
       IN  <<SubSeq(s, 1, n)>> \o Tokens(SubSeq(s, n + 1, Len(s)))

NoName == <<"None">>

\* split_name: <<first, last>>, or <<NoName, NoName>> for (None, None)
split_name(full) ==
  LET parts == Tokens(Strip(full, Whitespace))
  IN  IF parts = <<>> THEN <<NoName, NoName>>
      ELSE IF Len(parts) = 1 THEN <<parts[1], <<"u","s","e","r">> >>
      ELSE <<parts[1], parts[Len(parts)]>>

\* slug: strip, lower, drop everything outside [a-z0-9]
slug(s) ==
  SelectSeq(Lower(Strip(s, Whitespace)),
            LAMBDA c : c \in LowerLetters \cup Digits)

\* ---------------------------------------------------------------- patterns
\* PATTERNS: each template is the sequence of its literal characters and
\* replacement fields.
PATTERNS ==
  << <<"{first}", ".", "{last}">>,
     <<"{first}", "{last}">>,
     <<"{f}", "{last}">>,
     <<"{first}", "{l}">>,
     <<"{last}", ".", "{first}">>,
     <<"{first}", "_", "{last}">>,
     <<"{first}", "-", "{last}">>,
     <<"{first}", ".", "{last}", "{n2}">>,
     <<"{first}", "{last}", "{n3}">> >>

\* f"{n:0wd}" for 0 <= n < 10^w, w in {2, 3}
ZeroPad(n, w) ==
  IF w = 2
    THEN <<DigitSeq[((n \div 10) % 10) + 1], DigitSeq[(n % 10) + 1]>>
    ELSE <<DigitSeq[((n \div 100) % 10) + 1], DigitSeq[((n \div 10) % 10) + 1],
           DigitSeq[(n % 10) + 1]>>

\* str.format on one piece of a template
Field(tok, first, last, n2, n3) ==
  CASE tok = "{first}" -> first
    [] tok = "{last}"  -> last
    [] tok = "{f}"     -> SubSeq(first, 1, IF Len(first) < 1 THEN Len(first) ELSE 1)
    [] tok = "{l}"     -> SubSeq(last, 1, IF Len(last) < 1 THEN Len(last) ELSE 1)
    [] tok = "{n2}"    -> n2
    [] tok = "{n3}"    -> n3
    [] OTHER           -> <<tok>>

RECURSIVE Format(_, _, _, _, _)
Format(pattern, first, last, n2, n3) ==
  IF pattern = <<>> THEN <<>>
  ELSE Field(Head(pattern), first, last, n2, n3)
         \o Format(Tail(pattern), first, last, n2, n3)

\* ---------------------------------------------------------- random source
\* A random.Random is modelled by the state of a linear congruential
\* generator (key), the number of values drawn so far, and the calls made on
\* it during the current loop iteration.  A seed text fixes the first state.
Alphabet == LowerSeq \o UpperSeq \o DigitSeq \o <<" ", "\t", ".", "_", "-", "@", "+">>

Code(c) == CHOOSE i \in 1..Len(Alphabet) : Alphabet[i] = c

RECURSIVE SeedKey(_)
SeedKey(s) ==
  IF s = <<>> THEN 7 ELSE (31 * SeedKey(SubSeq(s, 1, Len(s) - 1)) + Code(s[Len(s)])) % 1009

\* the states an unseeded random.Random may take from the operating system
EntropyValues == {0, 1}

\* Mutation: the seed text is ignored and the source is always unseeded.
rng_from_seed_unseeded(seed_value, entropy) ==
  [key |-> entropy, pos |-> 0, calls |-> <<>>]

\* App._rng_from_seed: random.Random(seed or None); entropy is the state an
\* unseeded generator takes from the operating system.
rng_from_seed(seed_value, entropy) ==
  IF Strip(seed_value, Whitespace) # <<>>
    THEN [key |-> SeedKey(Strip(seed_value, Whitespace)), pos |-> 0, calls |-> <<>>]
    ELSE [key |-> entropy, pos |-> 0, calls |-> <<>>]

\* the next value below n of the stream
RandBelow(r, n) == (r.key \div 3) % n

\* state of the source after one call
Advance(r, call) ==
  [r EXCEPT !.key = (37 * @ + 11) % 1009, !.pos = @ + 1, !.calls = Append(@, call)]

\* rng.choice(seq): [val, rng]; arg names the sequence the code passes
Choice(r, seq, arg) ==
  [val |-> seq[RandBelow(r, Len(seq)) + 1], rng |-> Advance(r, <<"choice", arg>>)]

\* rng.randint(lo, hi): [val, rng]
RandInt(r, lo, hi) ==
  [val |-> lo + RandBelow(r, hi - lo + 1), rng |-> Advance(r, <<"randint", lo, hi>>)]

\* Mutation: n3 is drawn before n2.
render_pattern_swapped(pattern, first, last, r) ==
  LET d3 == RandInt(r, 0, 999)
      d2 == RandInt(d3.rng, 0, 99)
  IN  [text |-> Format(pattern, first, last, ZeroPad(d2.val, 2), ZeroPad(d3.val, 3)),
       rng |-> d2.rng]

\* render_pattern: [text, rng]
render_pattern(pattern, first, last, r) ==
  LET d2 == RandInt(r, 0, 99)
      d3 == RandInt(d2.rng, 0, 999)
  IN  [text |-> Format(pattern, first, last, ZeroPad(d2.val, 2), ZeroPad(d3.val, 3)),
       rng |-> d3.rng]

\* -------------------------------------------------------------- sanitizer
\* re.sub(r"[._-]{2,}", ".", s)
RECURSIVE CollapseSeps(_)
CollapseSeps(s) ==
  IF s = <<>> THEN <<>>
  ELSE IF RunLen(s, Separators) >= 2
    THEN <<".">> \o CollapseSeps(SubSeq(s, RunLen(s, Separators) + 1, Len(s)))
    ELSE <<Head(s)>> \o CollapseSeps(Tail(s))

\* lines 333-337: optional lowercasing, filtering, collapsing, trimming
Clean(username, lower) ==
  LET u1 == IF lower THEN Lower(username) ELSE username
      u2 == SelectSeq(u1, LAMBDA c : c \in LowerLetters \cup Digits \cup Separators)
  IN  Strip(CollapseSeps(u2), Separators)

\* Mutation: three-character usernames are rejected as well.
Unusable_strict(username) == username = <<>> \/ Len(username) <= 3

\* Mutation: two-character usernames are let through.
Unusable_short(username) == username = <<>> \/ Len(username) < 2

\* line 338: not username or len(username) < 3
Unusable(username) == username = <<>> \/ Len(username) < 3

\* ------------------------------------------------------------- validation
RECURSIVE DigitsValue(_)
DigitsValue(s) ==
  IF s = <<>> THEN 0
  ELSE 10 * DigitsValue(SubSeq(s, 1, Len(s) - 1))
         + ((CHOOSE i \in 1..10 : DigitSeq[i] = s[Len(s)]) - 1)

\* the digits of an integer literal, its sign taken off
Unsigned(text) ==
  LET t == Strip(text, Whitespace)
  IN  IF t # <<>> /\ Head(t) \in {"+", "-"} THEN Tail(t) ELSE t

\* int(text.strip()) does not raise ValueError: optional sign, decimal digits
IsIntText(text) ==
  Unsigned(text) # <<>> /\ \A i \in 1..Len(Unsigned(text)) : Unsigned(text)[i] \in Digits

\* int(text.strip()) where it does not raise
ParseInt(text) ==
  IF Head(Strip(text, Whitespace)) = "-"
    THEN 0 - DigitsValue(Unsigned(text))
    ELSE DigitsValue(Unsigned(text))

\* Mutation: zero is let through.
CountRejected_zero(count) == count < 0 \/ count > COUNT_LIMIT

\* line 279: count <= 0 or count > 200000
CountRejected(count) == count <= 0 \/ count > COUNT_LIMIT

\* Mutation: a one-letter top-level label is accepted.
DomainMatch_tld1(d) ==
  \E k \in 2..Len(d) :
    /\ d[k] = "."
    /\ \A i \in 1..(k - 1) : d[i] \in LowerLetters \cup UpperLetters \cup Digits \cup {".", "-"}
    /\ Len(d) - k >= 1
    /\ \A i \in (k + 1)..Len(d) : d[i] \in LowerLetters \cup UpperLetters

\* re.fullmatch(r"[a-zA-Z0-9.-]+\.[a-zA-Z]{2,}", d)
DomainMatch(d) ==
  \E k \in 2..Len(d) :
    /\ d[k] = "."
    /\ \A i \in 1..(k - 1) : d[i] \in LowerLetters \cup UpperLetters \cup Digits \cup {".", "-"}
    /\ Len(d) - k >= 2
    /\ \A i \in (k + 1)..Len(d) : d[i] \in LowerLetters \cup UpperLetters

\* line 295: the lines that are not domains
BadDomains(domains) == SelectSeq(domains, LAMBDA d : ~DomainMatch(d))

\* lines 306-314: the parsed name pool, entries <<full, first_s, last_s>>
RECURSIVE BuildPool(_)
BuildPool(names) ==
  IF names = <<>> THEN <<>>
  ELSE LET fl == split_name(Head(names))
           first_s == slug(fl[1])
           last_s == slug(fl[2])
       IN  IF fl[1] # NoName /\ fl[2] # NoName /\ first_s # <<>> /\ last_s # <<>>
             THEN << <<Head(names), first_s, last_s>> >> \o BuildPool(Tail(names))
             ELSE BuildPool(Tail(names))

\* line 300: the enabled patterns, in PATTERNS order
EnabledPatterns(vars) ==
  LET idx == SelectSeq([i \in 1..Len(PATTERNS) |-> i], LAMBDA i : vars[i])
  IN  [j \in 1..Len(idx) |-> PATTERNS[idx[j]]]

\* Mutation: the non-unique budget is as large as the unique one.
MaxTries_wide(count, unique) == count * 10

\* line 324
MaxTries(count, unique) == count * (IF unique THEN 10 ELSE 2)

\* Mutation: the loop runs once more after the target is reached.
LoopCond_late(n, count, tries, max_tries) == n <= count /\ tries < max_tries

\* line 327
LoopCond(n, count, tries, max_tries) == n < count /\ tries < max_tries

\* Mutation: an email already seen is appended again.
Collides_never(unique, email, seen) == FALSE

\* lines 344-345
Collides(unique, email, seen) == unique /\ email \in seen

\* Mutation: the new batch is appended to the retained one.
Published_merged(old_rows, rows) == old_rows \o rows

\* line 365
Published(old_rows, rows) == rows

\* line 368: "\n".join(results) as the lines of the output widget
OutputLines(results) == results

\* ------------------------------------------------------------------ state
VARIABLES
  names_text,       \* lines of the names Text widget
  domains_text,     \* lines of the domains Text widget
  email_seed_var,   \* text of the email seed entry
  count_var,        \* text of the email count entry
  unique_var,       \* Unique check box
  lower_var,        \* Lowercase check box
  pattern_vars,     \* check box of each of the nine patterns
  out,              \* lines of the output Text widget
  last_rows,        \* App.last_rows
  dialog,           \* message box raised by the handler that ran last
  pc,               \* "idle", or "loop" inside generate_emails
  rng, count, domains, enabled_patterns, name_pool,
  results, rows, seen, max_tries, tries,   \* locals of generate_emails
  outcome,          \* how the last loop iteration ended: "appended", "rejected"
                    \* (continue at line 339), "collision" (continue at line 346)
  repeat            \* history: the widgets are as the last published batch read them

widgets == <<names_text, domains_text, email_seed_var, count_var,
             unique_var, lower_var, pattern_vars>>

locals == <<rng, count, domains, enabled_patterns, name_pool,
            results, rows, seen, max_tries, tries, outcome>>

vars == <<widgets, out, last_rows, dialog, pc, locals, repeat>>

NoDialog == [kind |-> "none", title |-> "", requested |-> 0, generated |-> 0]

showerror(title) == [kind |-> "error", title |-> title, requested |-> 0, generated |-> 0]

showinfo(title) == [kind |-> "info", title |-> title, requested |-> 0, generated |-> 0]

\* lines 359-363: the message carries both counts
showwarning(title, requested, generated) ==
  [kind |-> "warning", title |-> title, requested |-> requested, generated |-> generated]

NoRng == [key |-> 0, pos |-> 0, calls |-> <<>>]

\* the locals of generate_emails do not exist outside the call
NoLocals ==
  /\ rng = NoRng /\ count = 0 /\ domains = <<>> /\ enabled_patterns = <<>>
  /\ name_pool = <<>> /\ results = <<>> /\ rows = <<>> /\ seen = {}
  /\ max_tries = 0 /\ tries = 0 /\ outcome = "none"

DropLocals ==
  /\ rng' = NoRng /\ count' = 0 /\ domains' = <<>> /\ enabled_patterns' = <<>>
  /\ name_pool' = <<>> /\ results' = <<>> /\ rows' = <<>> /\ seen' = {}
  /\ max_tries' = 0 /\ tries' = 0 /\ outcome' = "none"

DEFAULT_DOMAINS ==
  << <<"g","m","a","i","l",".","c","o","m">>,
     <<"e","x","a","m","p","l","e",".","o","r","g">>,
     <<"e","x","a","m","p","l","e",".","n","e","t">> >>

\* App.__init__ and _build_ui
Init ==
  /\ names_text = <<>>
  /\ domains_text = DEFAULT_DOMAINS
  /\ email_seed_var = <<>>
  /\ count_var = <<"2","0","0">>
  /\ unique_var = TRUE
  /\ lower_var = TRUE
  /\ pattern_vars = [i \in 1..Len(PATTERNS) |-> i - 1 < 6]
  /\ out = <<>>
  /\ last_rows = <<>>
  /\ dialog = NoDialog
  /\ pc = "idle"
  /\ NoLocals
  /\ repeat = FALSE

\* ----------------------------------------------------------- what is typed
RECURSIVE Decimal(_)
Decimal(n) ==
  IF n < 10 THEN <<DigitSeq[n + 1]>>
  ELSE Decimal(n \div 10) \o <<DigitSeq[(n % 10) + 1]>>

SeedTexts == { <<" ">>, <<" ", "s">> }

GoodCountTexts == { Decimal(MaxCount), <<" ", "+", "1", "\t">> }

BadCountTexts == { <<"0">>, <<"-", "1">>, <<"x">>, Decimal(COUNT_LIMIT + 1) }

ExampleOrg == <<"e","x","a","m","p","l","e",".","o","r","g">>

GoodNameTexts ==
  { << <<"A", " ", "B">> >>,
    << <<"A","l","\t","d","e"," "," ","B","o">>, <<"@", " ", "x">>, <<"A">> >> }

BadNameTexts == { << <<" ", "\t">> >>, << <<"@", "@">> >> }

GoodDomainTexts ==
  { << ExampleOrg >>,
    << <<"E",".","o","r","g">>, <<" ","e",".","o","r","g">> >> }

BadDomainTexts == { << <<" ">> >>, << ExampleOrg, <<"n","o","d","o","t">> >> }

PatternChoice(S) == [i \in 1..Len(PATTERNS) |-> i \in S]

GoodPatternChoices == { PatternChoice({3}), PatternChoice({1, 3, 8}) }

\* forms whose every field passes validation, Lowercase checked
LowerForms ==
  [names : GoodNameTexts, domains : GoodDomainTexts, seed : SeedTexts,
   count : GoodCountTexts, unique : BOOLEAN, lower : {TRUE},
   patterns : GoodPatternChoices]

BaseForm ==
  [names |-> << <<"A", " ", "B">> >>, domains |-> << ExampleOrg >>,
   seed |-> <<" ", "s">>, count |-> <<" ", "+", "1", "\t">>, unique |-> TRUE,
   lower |-> FALSE, patterns |-> PatternChoice({1, 3})]

\* valid forms with Lowercase unchecked
MixedCaseForms ==
  { [BaseForm EXCEPT !.names = n, !.unique = u, !.count = c] :
      n \in GoodNameTexts, u \in BOOLEAN, c \in GoodCountTexts }

GoodForms == LowerForms \cup MixedCaseForms

\* forms with one or more fields that fail validation
BadForms ==
  { [BaseForm EXCEPT !.count = c] : c \in BadCountTexts }
    \cup { [BaseForm EXCEPT !.names = n] : n \in BadNameTexts }
    \cup { [BaseForm EXCEPT !.domains = d] : d \in BadDomainTexts }
    \cup { [BaseForm EXCEPT !.patterns = PatternChoice({})] }
    \cup { [BaseForm EXCEPT !.count = <<"x">>, !.domains = << <<" ">> >>,
                            !.patterns = PatternChoice({})] }

Forms == GoodForms \cup BadForms

\* ---------------------------------------------------------------- actions
\* The user fills in the form: types into the entries and text boxes and
\* toggles the check boxes (widget behaviour of the toolkit; any message box
\* has been closed).
Edit ==
  /\ pc = "idle"
  /\ \E f \in Forms :
       /\ names_text' = f.names
       /\ domains_text' = f.domains
       /\ email_seed_var' = f.seed
       /\ count_var' = f.count
       /\ unique_var' = f.unique
       /\ lower_var' = f.lower
       /\ pattern_vars' = f.patterns
  /\ dialog' = NoDialog
  /\ repeat' = FALSE
  /\ UNCHANGED <<out, last_rows, pc, locals>>

\* generate_emails, lines 275-325: validation and set-up of the loop
GenerateEmails ==
  /\ pc = "idle"
  /\ \E entropy \in EntropyValues :
       LET r == rng_from_seed(email_seed_var, entropy)
           n == ParseInt(count_var)
           names == read_lines(names_text)
           doms == read_lines(domains_text)
           pats == EnabledPatterns(pattern_vars)
           pool == BuildPool(names)
           abort(title) ==
             /\ dialog' = showerror(title)
             /\ UNCHANGED <<widgets, out, last_rows, pc, locals, repeat>>
       IN  IF ~IsIntText(count_var) \/ CountRejected(n) THEN abort("Invalid count")
           ELSE IF names = <<>> THEN abort("No names")
           ELSE IF doms = <<>> THEN abort("No domains")
           ELSE IF BadDomains(doms) # <<>> THEN abort("Invalid domains")
           ELSE IF pats = <<>> THEN abort("No patterns")
           ELSE IF pool = <<>> THEN abort("Invalid names")
           ELSE /\ rng' = r
                /\ count' = n
                /\ domains' = doms
                /\ enabled_patterns' = pats
                /\ name_pool' = pool
                /\ results' = <<>>
                /\ rows' = <<>>
                /\ seen' = {}
                /\ max_tries' = MaxTries(n, unique_var)
                /\ tries' = 0
                /\ outcome' = "none"
                /\ pc' = "loop"
                /\ dialog' = NoDialog
                /\ UNCHANGED <<widgets, out, last_rows, repeat>>

\* lines 331-356: the rest of an iteration once the pool entry (pick) and
\* the pattern (pat) are drawn and the pattern is rendered
Body(pick, pat, rendered, username) ==
  IF Unusable(username)
    THEN /\ rng' = rendered.rng
         /\ outcome' = "rejected"
         /\ UNCHANGED <<results, rows, seen>>
    ELSE \E dom \in {Choice(rendered.rng, domains, "domains")} :
         \E domain \in {Lower(dom.val)} :
         \E email \in {username \o <<"@">> \o domain} :
           /\ rng' = dom.rng
           /\ IF Collides(unique_var, email, seen)
                THEN /\ outcome' = "collision"
                     /\ UNCHANGED <<results, rows, seen>>
                ELSE /\ outcome' = "appended"
                     /\ seen' = IF unique_var THEN seen \cup {email} ELSE seen
                     /\ results' = Append(results, email)
                     /\ rows' = Append(rows,
                          [name |-> pick.val[1], email |-> email,
                           domain |-> domain, pattern |-> pat.val,
                           username |-> username])

\* generate_emails, lines 327-356: one iteration of the while loop
Attempt ==
  /\ pc = "loop"
  /\ LoopCond(Len(results), count, tries, max_tries)
  /\ tries' = tries + 1
  /\ \E pick \in {Choice([rng EXCEPT !.calls = <<>>], name_pool, "name_pool")} :
     \E pat \in {Choice(pick.rng, enabled_patterns, "enabled_patterns")} :
     \E rendered \in {render_pattern(pat.val, pick.val[2], pick.val[3], pat.rng)} :
     \E username \in {Clean(rendered.text, lower_var)} :
       Body(pick, pat, rendered, username)
  /\ UNCHANGED <<widgets, out, last_rows, dialog, pc, count, domains,
                 enabled_patterns, name_pool, max_tries, repeat>>

\* generate_emails, lines 358-368: warning and publication
Finish ==
  /\ pc = "loop"
  /\ ~LoopCond(Len(results), count, tries, max_tries)
  /\ dialog' = IF Len(results) < count
                 THEN showwarning("Generated fewer than requested", count, Len(results))
                 ELSE NoDialog
  /\ last_rows' = Published(last_rows, rows)
  /\ out' = OutputLines(results)
  /\ pc' = "idle"
  /\ DropLocals
  /\ repeat' = TRUE
  /\ UNCHANGED widgets

\* the Clear Output button, line 192
ClearOutput ==
  /\ pc = "idle"
  /\ out' = <<>>
  /\ dialog' = NoDialog
  /\ UNCHANGED <<widgets, last_rows, pc, locals, repeat>>

\* App._ensure_rows
ensure_rows(rs) == rs # <<>>

\* export_csv, export_json, export_sql: the file written is outside the
\* model; chosen is FALSE when the file dialog is cancelled
Export(fmt, chosen) ==
  /\ pc = "idle"
  /\ dialog' = IF ~ensure_rows(last_rows) THEN showerror("Nothing to export")
               ELSE IF ~chosen THEN NoDialog
               ELSE showinfo(fmt)
  /\ UNCHANGED <<widgets, out, last_rows, pc, locals, repeat>>

Next ==
  \/ Edit
  \/ GenerateEmails
  \/ Attempt
  \/ Finish
  \/ ClearOutput
  \/ \E fmt \in {"Exported CSV", "Exported JSON", "Exported SQL"}, chosen \in BOOLEAN :
       Export(fmt, chosen)

Spec == Init /\ [][Next]_vars

\* ------------------------------------------- one form, generated from
\* The window right after the user has filled in the form f.
Filled(f) ==
  /\ names_text = f.names
  /\ domains_text = f.domains
  /\ email_seed_var = f.seed
  /\ count_var = f.count
  /\ unique_var = f.unique
  /\ lower_var = f.lower
  /\ pattern_vars = f.patterns
  /\ out = <<>>
  /\ last_rows = <<>>
  /\ dialog = NoDialog
  /\ pc = "idle"
  /\ NoLocals
  /\ repeat = FALSE

\* Generate Emails is clicked, again and again, on an unchanging form
RunNext == GenerateEmails \/ Attempt \/ Finish

LoopInit == \E f \in Forms : Filled(f)

\* generate_emails runs to completion once started: the handler is
\* synchronous, so a loop step or the publication that can be taken is taken.
LoopSpec == LoopInit /\ [][RunNext]_vars /\ WF_vars(Attempt) /\ WF_vars(Finish)

\* domain lines: every string over DomainChars of up to MaxDomLen characters
DomainChars == {"a", "Z", "9", ".", "-", "_", " "}

DomainLines ==
  UNION { [1..n -> DomainChars] : n \in 0..MaxDomLen }
    \cup { ExampleOrg, <<"b","a","d"," ","d","o","m","a","i","n">>,
           <<"n","o","d","o","t">>, <<"a",".","b">> }

DomainForms ==
  { [BaseForm EXCEPT !.domains = << d >>] : d \in DomainLines }
    \cup { [BaseForm EXCEPT !.domains = << ExampleOrg, d >>] : d \in DomainLines }

DomInit == \E f \in DomainForms : Filled(f)

DomSpec == DomInit /\ [][RunNext]_vars

\* ----------------------------------------------------------------- claims
EmailsOf(rs) == [i \in 1..Len(rs) |-> rs[i].email]

NoDupEmails(rs) ==
  \A i, j \in 1..Len(rs) : rs[i].email = rs[j].email => i = j

\* the attempt budget as the text states it
Budget == count * (IF unique_var THEN 10 ELSE 2)

\* some pool entry and enabled pattern render to a candidate the sanitizer
\* rejects (the digits of n2 and n3 never change the verdict)
RejectPossible ==
  \E e \in Range(BuildPool(read_lines(names_text))),
     p \in Range(EnabledPatterns(pattern_vars)) :
    LET u == Clean(Format(p, e[2], e[3], <<"0","0">>, <<"0","0","0">>), lower_var)
    IN  Len(u) < 3

\* C1: once started, the batch loop always comes to its end; the number of
\* attempts never exceeds targetCount * (10 if unique else 2); and every
\* iteration, whatever its outcome, uses up exactly one attempt.
C1_BoundedTermination ==
  /\ [](pc = "loop" => tries <= Budget /\ max_tries = Budget)
  /\ [][pc = "loop" /\ pc' = "loop" => tries' = tries + 1]_vars
  /\ ((pc = "loop") ~> (pc = "idle"))

\* the budget is used up by skipped candidates without the target being reached
C1_Witness ==
  /\ pc = "loop" /\ unique_var /\ outcome # "appended"
  /\ tries = Budget /\ Len(rows) >= 1 /\ Len(rows) < count

\* C2: with Unique checked, the rows collected so far and the rows of the
\* published batch never hold the same email twice.
C2_UniqueEmails ==
  /\ (pc = "loop" /\ unique_var) => (NoDupEmails(rows) /\ seen = Range(EmailsOf(rows)))
  /\ (pc = "idle" /\ repeat /\ unique_var) => NoDupEmails(last_rows)

\* a candidate that was already in the batch has just been skipped
C2_Witness ==
  /\ pc = "loop" /\ unique_var /\ outcome = "collision"
  /\ Len(rows) >= 1 /\ ~RejectPossible

\* C3: a batch never has more than targetCount rows; when the loop ends the
\* warning with the requested and the actual count is raised exactly if fewer
\* rows than requested were collected, and the rows collected are published.
C3_CountAndWarning ==
  /\ [](pc = "loop" => Len(rows) <= count /\ Len(results) = Len(rows))
  /\ [][(pc = "loop" /\ pc' = "idle") =>
          /\ (dialog'.kind = "warning") <=> (Len(rows) < count)
          /\ (Len(rows) < count) =>
               (dialog'.requested = count /\ dialog'.generated = Len(rows))
          /\ (Len(rows) >= count) => dialog' = NoDialog
          /\ last_rows' = rows
          /\ out' = EmailsOf(rows)
          /\ Len(last_rows') <= count]_vars

\* an under-fulfilled batch has been published with the rows it has
C3_Witness ==
  /\ pc = "idle" /\ repeat /\ dialog.kind = "warning"
  /\ dialog.requested = 2 /\ dialog.generated = 1
  /\ Len(last_rows) = 1 /\ out = EmailsOf(last_rows)

\* the form fails validation, in the words of the claim
InvalidForm ==
  \/ ~IsIntText(count_var)
  \/ ParseInt(count_var) \notin 1..200000
  \/ read_lines(names_text) = <<>>
  \/ read_lines(domains_text) = <<>>
  \/ \E d \in Range(read_lines(domains_text)) : ~DomainMatch(d)
  \/ \A i \in 1..Len(PATTERNS) : ~pattern_vars[i]
  \/ BuildPool(read_lines(names_text)) = <<>>

ValidationTitles ==
  {"Invalid count", "No names", "No domains", "Invalid domains", "No patterns",
   "Invalid names"}

\* the click ended in an error with nothing generated and nothing touched
Aborted ==
  /\ dialog'.kind = "error" /\ dialog'.title \in ValidationTitles
  /\ pc' = "idle"
  /\ last_rows' = last_rows /\ out' = out
  /\ tries' = tries /\ rows' = rows /\ results' = results /\ rng' = rng

\* a step of generate_emails out of the idle window
ClickStep == pc = "idle" /\ (pc' = "loop" \/ dialog'.title \in ValidationTitles)

\* C4: a click on Generate Emails with a form that fails validation ends in
\* a validation error with last_rows and the output text as they were, and
\* the loop is never entered with such a form, so no attempt is made.
C4_ValidationAborts ==
  /\ [](pc = "loop" => (~InvalidForm /\ count \in 1..200000))
  /\ [][(ClickStep /\ InvalidForm) => Aborted]_vars
  /\ [][(ClickStep /\ dialog'.kind = "error") => (InvalidForm /\ Aborted)]_vars

\* a validation error has been raised while a batch is retained and shown
C4_Witness ==
  /\ pc = "idle" /\ dialog = showerror("Invalid domains")
  /\ Len(last_rows) = 2 /\ out = EmailsOf(last_rows)

\* C5 as stated: with any non-empty seed text, generating again from the
\* unchanged form publishes the batch that is retained from the run before.
C5_AnySeedText ==
  [][(pc = "loop" /\ pc' = "idle" /\ repeat /\ email_seed_var # <<>>) =>
       (last_rows' = last_rows /\ out' = EmailsOf(last_rows))]_vars

\* C5, amended: with a seed text that is non-empty after trimming, generating
\* again from the unchanged form publishes the batch that is retained from
\* the run before, whatever was done to the window in between.
C5_TrimmedSeed ==
  [][(pc = "loop" /\ pc' = "idle" /\ repeat
        /\ Strip(email_seed_var, Whitespace) # <<>>) =>
       (last_rows' = last_rows /\ out' = EmailsOf(last_rows))]_vars

\* a seeded second run has collected its rows after the output was cleared
C5_Witness ==
  /\ pc = "loop" /\ repeat /\ Strip(email_seed_var, Whitespace) # <<>>
  /\ ~LoopCond(Len(results), count, tries, max_tries)
  /\ Len(rows) = 2 /\ rows = last_rows /\ out = <<>>

\* C6: with Unique unchecked and no pool entry and pattern that the sanitizer
\* rejects, the loop ends with exactly targetCount rows after exactly
\* targetCount attempts, and no warning is raised.
C6_ExactCount ==
  [][(pc = "loop" /\ pc' = "idle" /\ ~unique_var /\ ~RejectPossible) =>
       (Len(last_rows') = count /\ tries = count /\ dialog'.kind # "warning")]_vars

\* such a batch has been published, with the same email in it twice
C6_Witness ==
  /\ pc = "idle" /\ repeat /\ ~unique_var /\ ~RejectPossible
  /\ Len(last_rows) = 2 /\ last_rows[1].email = last_rows[2].email
  /\ dialog = NoDialog

\* C7: last_rows changes only when the loop has ended, and then to exactly
\* the rows of that run; the output text is then the emails of those rows
\* and stays so until it is cleared; exports and failed validations leave
\* both alone.
C7_LastBatch ==
  /\ [](out # <<>> => out = EmailsOf(last_rows))
  /\ [][/\ (pc = "loop" /\ pc' = "idle") =>
             (last_rows' = rows /\ out' = EmailsOf(rows))
        /\ ~(pc = "loop" /\ pc' = "idle") => last_rows' = last_rows
        /\ (pc' = "loop") => out' = out
        /\ (pc = "idle" /\ pc' = "idle" /\ dialog' # NoDialog) => out' = out]_vars

\* a run that produced no row has replaced the retained batch
C7_Witness ==
  /\ pc = "idle" /\ repeat /\ last_rows = <<>> /\ out = <<>>
  /\ dialog.kind = "warning" /\ dialog.generated = 0

\* [A-Za-z0-9.-]+\.[A-Za-z]{2,} read from the right: the part after the last
\* dot is two or more letters, the part before it is non-empty and made of
\* letters, digits, dots and hyphens
MatchesDomainSyntax(d) ==
  LET dots == { i \in 1..Len(d) : d[i] = "." }
  IN  /\ dots # {}
      /\ LET k == CHOOSE i \in dots : \A j \in dots : j <= i
         IN  /\ k >= 2
             /\ Len(d) - k >= 2
             /\ \A i \in (k + 1)..Len(d) : d[i] \in LowerLetters \cup UpperLetters
             /\ \A i \in 1..(k - 1) :
                  d[i] \in LowerLetters \cup UpperLetters \cup Digits \cup {".", "-"}

\* Generate Emails has been clicked on the form
Clicked == dialog # NoDialog \/ pc = "loop" \/ repeat

DomainRuleHolds ==
  (dialog = showerror("Invalid domains")) <=>
    (\E d \in Range(read_lines(domains_text)) : ~MatchesDomainSyntax(d))

\* C8 as stated: the domain list is refused exactly when some line does not
\* match; example.org is accepted, "bad domain" and "nodot" are refused, and
\* a.b is accepted.
C8_AcceptsAB ==
  Clicked =>
    /\ DomainRuleHolds
    /\ domains_text = << ExampleOrg >> => dialog.kind # "error"
    /\ domains_text \in { << <<"b","a","d"," ","d","o","m","a","i","n">> >>,
                          << <<"n","o","d","o","t">> >> } =>
         dialog = showerror("Invalid domains")
    /\ domains_text = << <<"a",".","b">> >> => dialog.kind # "error"

\* C8, amended: the domain list is refused exactly when some line does not
\* match; example.org is accepted, "bad domain", "nodot" and a.b (its last
\* label has one letter) are refused.
C8_RejectsAB ==
  Clicked =>
    /\ DomainRuleHolds
    /\ domains_text = << ExampleOrg >> => dialog.kind # "error"
    /\ domains_text \in { << <<"b","a","d"," ","d","o","m","a","i","n">> >>,
                          << <<"n","o","d","o","t">> >>,
                          << <<"a",".","b">> >> } =>
         dialog = showerror("Invalid domains")

\* the list holding only a.b has been refused
C8_Witness ==
  /\ domains_text = << <<"a",".","b">> >>
  /\ dialog = showerror("Invalid domains") /\ pc = "idle" /\ last_rows = <<>>

FourDraws ==
  << <<"choice", "name_pool">>, <<"choice", "enabled_patterns">>,
     <<"randint", 0, 99>>, <<"randint", 0, 999>> >>

FiveDraws == Append(FourDraws, <<"choice", "domains">>)

\* C9 as stated: every iteration, whatever its outcome, makes the five draws
\* pool, pattern, n2, n3, domain.
C9_FiveDrawsAlways ==
  (pc = "loop" /\ outcome # "none") => rng.calls = FiveDraws

\* C9, amended: every iteration draws pool, pattern, n2 in [0,99] and n3 in
\* [0,999] in this order; the domain is drawn fifth when the row is appended
\* or skipped as a collision, and not at all when the sanitizer rejects the
\* candidate.
C9_DrawsPerOutcome ==
  (pc = "loop" /\ outcome # "none") =>
    rng.calls = (IF outcome = "rejected" THEN FourDraws ELSE FiveDraws)

\* a rejected candidate after an appended one
C9_Witness ==
  /\ pc = "loop" /\ outcome = "rejected" /\ Len(rng.calls) = 4
  /\ Len(rows) >= 1 /\ rng.pos = 9

SanitizedLocalPart(u) ==
  /\ Len(u) >= 3
  /\ \A i \in 1..Len(u) : u[i] \in LowerLetters \cup Digits \cup Separators
  /\ u[1] \notin Separators /\ u[Len(u)] \notin Separators
  /\ \A i \in 1..(Len(u) - 1) : ~(u[i] \in Separators /\ u[i + 1] \in Separators)

\* C10: the username of every row, collected or published, is a sanitized
\* local part of three or more characters, and it is the part of the row's
\* email before the @; a rejected candidate adds no row.
C10_SanitizedUsernames ==
  /\ \A r \in Range(rows) \cup Range(last_rows) :
       /\ SanitizedLocalPart(r.username)
       /\ r.email = r.username \o <<"@">> \o r.domain
  /\ (pc = "loop" /\ outcome = "rejected") => Len(rows) < tries

\* with Lowercase unchecked a candidate was rejected in a batch that has a row
C10_Witness ==
  /\ pc = "loop" /\ outcome = "rejected" /\ ~lower_var /\ Len(rows) >= 1

====
